---- MODULE Spec2Model ----
(***************************************************************************)
(* Procurement multi-agent workflow (src/procurement.py).                  *)
(*                                                                         *)
(* Money.  The lookup tables of the source hold whole dollars (budgets,    *)
(* approval limits) and prices with two decimals.  Every amount, price,    *)
(* cost, shortfall and saving of the model is an integer number of cents;  *)
(* the dollar tables are kept as written and converted with Dollars(_)     *)
(* where the code compares them with an amount.  Ratings are in tenths     *)
(* (4.5 is 45).  A quotient the code computes with / is kept as the exact  *)
(* fraction [num, den]; two price/rating keys are compared by cross        *)
(* multiplication.                                                         *)
(*                                                                         *)
(* Exceptions.  An operator that models a function returns either the      *)
(* function's value or a record [exception |-> name]; process_request      *)
(* turns an exception of any step into its {"error": ...} result, as its   *)
(* try/except does.                                                        *)
(***************************************************************************)
EXTENDS Integers, Sequences, FiniteSets, TLC

VARIABLES
    procurement_history,  \* st.session_state.procurement_history
    current_request,      \* st.session_state.current_request
    call                  \* the activation in progress: operation, arguments, result

vars == <<procurement_history, current_request, call>>

----------------------------------------------------------------------------
(* Bounds of the model *)

\* quantities are 1..MaxQuantity; the largest availability of the catalog is 200
MaxQuantity == 201
\* amounts handed to the budget and approval agents are multiples of AmountStep
\* cents, 0..MaxAmountSteps of them, and the cents around every table threshold
AmountStep == 50000
MaxAmountSteps == 160
\* request ids (uuid4) are drawn from 1..MaxRequestId
MaxRequestId == 2
\* offer lists handed to optimize_cost directly have at most MaxOffers offers
MaxOffers == 3
\* a request is taken while the history holds fewer than MaxHistory results
MaxHistory == 2

----------------------------------------------------------------------------
(* Python helpers *)

Dollars(d) == d * 100

Max(a, b) == IF a >= b THEN a ELSE b

\* dict.get(key, default)
Get(d, key, default) == IF key \in DOMAIN d THEN d[key] ELSE default

IsException(v) == "exception" \in DOMAIN v

\* a / b of Python: the exact quotient, ZeroDivisionError when b is 0
TrueDiv(a, b) ==
    IF b = 0 THEN [exception |-> "ZeroDivisionError"]
    ELSE [num |-> a, den |-> b]

\* the number 0 where the code's other branch is a quotient
RatZero == [num |-> 0, den |-> 1]

\* str.lower() on the item names the model draws
lower(item) ==
    CASE item = "Laptops" -> "laptops"
      [] item = "PRINTERS" -> "printers"
      [] OTHER -> item

----------------------------------------------------------------------------
(* Lookup tables *)

Offer(n, p, a, l, r) ==
    [name |-> n, price |-> p, availability |-> a, lead_time |-> l, rating |-> r]

suppliers_db ==
    [laptops |->
        << Offer("TechCorp", 89999, 50, 5, 45),
           Offer("ElectroSupply", 84999, 30, 7, 42),
           Offer("BusinessTech", 87999, 100, 3, 47) >>,
     office_chairs |->
        << Offer("OfficePro", 24999, 200, 10, 43),
           Offer("ComfortSeating", 19999, 150, 14, 40),
           Offer("ErgoFurniture", 29999, 75, 7, 46) >>,
     printers |->
        << Offer("PrintTech", 45999, 25, 5, 44),
           Offer("OfficePrint", 42999, 40, 8, 41),
           Offer("ReliablePrint", 48999, 15, 3, 48) >>,
     monitors |->
        << Offer("DisplayTech", 32999, 60, 6, 45),
           Offer("ScreenSupply", 29999, 45, 9, 42),
           Offer("ViewPro", 34999, 30, 4, 47) >>]

\* the budget table with IT's remaining not brought up to date
department_budgets_stale ==
    [IT |-> [total |-> 50000, used |-> 23000, remaining |-> 17000],
     HR |-> [total |-> 25000, used |-> 12000, remaining |-> 13000],
     Marketing |-> [total |-> 35000, used |-> 18000, remaining |-> 17000],
     Operations |-> [total |-> 75000, used |-> 45000, remaining |-> 30000],
     Finance |-> [total |-> 40000, used |-> 15000, remaining |-> 25000]]

department_budgets ==
    [IT |-> [total |-> 50000, used |-> 23000, remaining |-> 27000],
     HR |-> [total |-> 25000, used |-> 12000, remaining |-> 13000],
     Marketing |-> [total |-> 35000, used |-> 18000, remaining |-> 17000],
     Operations |-> [total |-> 75000, used |-> 45000, remaining |-> 30000],
     Finance |-> [total |-> 40000, used |-> 15000, remaining |-> 25000]]

default_budget == [total |-> 0, used |-> 0, remaining |-> 0]

approval_matrix ==
    [IT |-> [manager |-> 5000, director |-> 15000, vp |-> 50000],
     HR |-> [manager |-> 3000, director |-> 10000, vp |-> 25000],
     Marketing |-> [manager |-> 2000, director |-> 8000, vp |-> 20000],
     Operations |-> [manager |-> 10000, director |-> 25000, vp |-> 75000],
     Finance |-> [manager |-> 7500, director |-> 20000, vp |-> 60000]]

\* the default limits with manager and director exchanged
default_limits_exchanged == [manager |-> 5000, director |-> 1000, vp |-> 15000]

default_limits == [manager |-> 1000, director |-> 5000, vp |-> 15000]

inventory_db ==
    [laptops |-> [current |-> 15, minimum |-> 25, maximum |-> 100, on_order |-> 10],
     office_chairs |-> [current |-> 45, minimum |-> 30, maximum |-> 200, on_order |-> 0],
     printers |-> [current |-> 8, minimum |-> 15, maximum |-> 50, on_order |-> 5],
     monitors |-> [current |-> 22, minimum |-> 20, maximum |-> 80, on_order |-> 0]]

default_inventory == [current |-> 0, minimum |-> 0, maximum |-> 0, on_order |-> 0]

----------------------------------------------------------------------------
(* ProcurementAgents *)

\* find_suppliers with the filter left out
find_suppliers_unfiltered(item, quantity) ==
    LET available_suppliers == Get(suppliers_db, lower(item), << >>)
    IN  [item |-> item,
         quantity_requested |-> quantity,
         suppliers |-> available_suppliers,
         total_suppliers_found |-> Len(available_suppliers)]

\* find_suppliers with availability > quantity for >=
find_suppliers_strict(item, quantity) ==
    LET available_suppliers == Get(suppliers_db, lower(item), << >>)
        suitable(s) == s.availability > quantity
        suitable_suppliers == SelectSeq(available_suppliers, suitable)
    IN  [item |-> item,
         quantity_requested |-> quantity,
         suppliers |-> suitable_suppliers,
         total_suppliers_found |-> Len(suitable_suppliers)]

find_suppliers(item, quantity) ==
    LET available_suppliers == Get(suppliers_db, lower(item), << >>)
        suitable(s) == s.availability >= quantity
        suitable_suppliers == SelectSeq(available_suppliers, suitable)
    IN  [item |-> item,
         quantity_requested |-> quantity,
         suppliers |-> suitable_suppliers,
         total_suppliers_found |-> Len(suitable_suppliers)]

\* check_budget_availability with amount < remaining for <=
check_budget_availability_strict(department, amount) ==
    LET budget == Get(department_budgets, department, default_budget)
        utilization_rate ==
            IF budget.total > 0 THEN TrueDiv(budget.used, budget.total) ELSE RatZero
    IN  [department |-> department,
         requested_amount |-> amount,
         budget_status |-> budget,
         approved |-> amount < Dollars(budget.remaining),
         shortfall |-> Max(0, amount - Dollars(budget.remaining)),
         utilization_rate |-> utilization_rate]

\* check_budget_availability with the guard on total left out
check_budget_availability_unguarded(department, amount) ==
    LET budget == Get(department_budgets, department, default_budget)
        utilization_rate == TrueDiv(budget.used, budget.total)
    IN  IF IsException(utilization_rate) THEN utilization_rate
        ELSE [department |-> department,
              requested_amount |-> amount,
              budget_status |-> budget,
              approved |-> amount <= Dollars(budget.remaining),
              shortfall |-> Max(0, amount - Dollars(budget.remaining)),
              utilization_rate |-> utilization_rate]

\* check_budget_availability that books the amount on the record it reports
check_budget_availability_consuming(department, amount) ==
    LET budget == Get(department_budgets, department, default_budget)
        utilization_rate ==
            IF budget.total > 0 THEN TrueDiv(budget.used, budget.total) ELSE RatZero
    IN  [department |-> department,
         requested_amount |-> amount,
         budget_status |->
             [total |-> budget.total,
              used |-> budget.used + amount \div 100,
              remaining |-> budget.remaining - amount \div 100],
         approved |-> amount <= Dollars(budget.remaining),
         shortfall |-> Max(0, amount - Dollars(budget.remaining)),
         utilization_rate |-> utilization_rate]

check_budget_availability(department, amount) ==
    LET budget == Get(department_budgets, department, default_budget)
        utilization_rate ==
            IF budget.total > 0 THEN TrueDiv(budget.used, budget.total) ELSE RatZero
    IN  IF IsException(utilization_rate) THEN utilization_rate
        ELSE [department |-> department,
              requested_amount |-> amount,
              budget_status |-> budget,
              approved |-> amount <= Dollars(budget.remaining),
              shortfall |-> Max(0, amount - Dollars(budget.remaining)),
              utilization_rate |-> utilization_rate]

\* the key of min(suppliers, key=lambda x: x["price"] / x["rating"]), compared:
\* price(x)/rating(x) < price(y)/rating(y), ratings being positive
ratio_less(x, y) == x.price * y.rating < y.price * x.rating

\* min that keeps the last of the minimal elements
min_price_per_rating_last(suppliers) ==
    LET best[i \in 1..Len(suppliers)] ==
            IF i = 1 THEN suppliers[1]
            ELSE IF ~ ratio_less(best[i - 1], suppliers[i]) THEN suppliers[i]
                 ELSE best[i - 1]
    IN  best[Len(suppliers)]

\* min(suppliers, key=price/rating): the first element no later one is below
min_price_per_rating(suppliers) ==
    LET best[i \in 1..Len(suppliers)] ==
            IF i = 1 THEN suppliers[1]
            ELSE IF ratio_less(suppliers[i], best[i - 1]) THEN suppliers[i]
                 ELSE best[i - 1]
    IN  best[Len(suppliers)]

\* max taken on price/rating, the key of the min, for the price
max_price_by_ratio(suppliers) ==
    LET best[i \in 1..Len(suppliers)] ==
            IF i = 1 THEN suppliers[1]
            ELSE IF ratio_less(best[i - 1], suppliers[i]) THEN suppliers[i]
                 ELSE best[i - 1]
    IN  best[Len(suppliers)]

\* max(suppliers, key=price): the first element no later one is above
max_price(suppliers) ==
    LET best[i \in 1..Len(suppliers)] ==
            IF i = 1 THEN suppliers[1]
            ELSE IF suppliers[i].price > best[i - 1].price THEN suppliers[i]
                 ELSE best[i - 1]
    IN  best[Len(suppliers)]

optimize_cost(suppliers, quantity) ==
    IF suppliers = << >> THEN [error |-> "No suppliers available"]
    ELSE IF \E i \in 1..Len(suppliers) : suppliers[i].rating = 0
         THEN TrueDiv(suppliers[1].price, 0)
    ELSE LET best_option == min_price_per_rating(suppliers)
             total_cost == best_option.price * quantity
             most_expensive == max_price(suppliers)
             savings == (most_expensive.price - best_option.price) * quantity
         IN  [recommended_supplier |-> best_option.name,
              unit_price |-> best_option.price,
              total_cost |-> total_cost,
              quantity |-> quantity,
              potential_savings |-> savings,
              lead_time |-> best_option.lead_time,
              supplier_rating |-> best_option.rating]

\* check_approval_required with amount < director limit for <=
check_approval_required_strict(amount, department) ==
    LET limits == Get(approval_matrix, department, default_limits)
        tier ==
            IF amount <= Dollars(limits.manager)
                THEN [required_approval |-> "Manager", approval_time |-> "1-2 days"]
            ELSE IF amount < Dollars(limits.director)
                THEN [required_approval |-> "Director", approval_time |-> "3-5 days"]
            ELSE IF amount <= Dollars(limits.vp)
                THEN [required_approval |-> "VP", approval_time |-> "5-7 days"]
            ELSE [required_approval |-> "CEO", approval_time |-> "7-14 days"]
    IN  [amount |-> amount,
         department |-> department,
         required_approval |-> tier.required_approval,
         approval_limits |-> limits,
         estimated_approval_time |-> tier.approval_time,
         auto_approved |-> amount <= Dollars(limits.manager)]

\* check_approval_required with the first comparison turned round
check_approval_required_flipped(amount, department) ==
    LET limits == Get(approval_matrix, department, default_limits)
        tier ==
            IF amount >= Dollars(limits.manager)
                THEN [required_approval |-> "Manager", approval_time |-> "1-2 days"]
            ELSE IF amount <= Dollars(limits.director)
                THEN [required_approval |-> "Director", approval_time |-> "3-5 days"]
            ELSE IF amount <= Dollars(limits.vp)
                THEN [required_approval |-> "VP", approval_time |-> "5-7 days"]
            ELSE [required_approval |-> "CEO", approval_time |-> "7-14 days"]
    IN  [amount |-> amount,
         department |-> department,
         required_approval |-> tier.required_approval,
         approval_limits |-> limits,
         estimated_approval_time |-> tier.approval_time,
         auto_approved |-> amount <= Dollars(limits.manager)]

check_approval_required(amount, department) ==
    LET limits == Get(approval_matrix, department, default_limits)
        tier ==
            IF amount <= Dollars(limits.manager)
                THEN [required_approval |-> "Manager", approval_time |-> "1-2 days"]
            ELSE IF amount <= Dollars(limits.director)
                THEN [required_approval |-> "Director", approval_time |-> "3-5 days"]
            ELSE IF amount <= Dollars(limits.vp)
                THEN [required_approval |-> "VP", approval_time |-> "5-7 days"]
            ELSE [required_approval |-> "CEO", approval_time |-> "7-14 days"]
    IN  [amount |-> amount,
         department |-> department,
         required_approval |-> tier.required_approval,
         approval_limits |-> limits,
         estimated_approval_time |-> tier.approval_time,
         auto_approved |-> amount <= Dollars(limits.manager)]

\* check_inventory with the guard on maximum left out
check_inventory_unguarded(item) ==
    LET inventory == Get(inventory_db, lower(item), default_inventory)
        reorder_needed == inventory.current + inventory.on_order < inventory.minimum
        suggested_quantity ==
            Max(0, inventory.minimum - inventory.current - inventory.on_order)
        stock_level_percentage == TrueDiv(inventory.current * 100, inventory.maximum)
    IN  IF IsException(stock_level_percentage) THEN stock_level_percentage
        ELSE [item |-> item,
              current_stock |-> inventory.current,
              minimum_required |-> inventory.minimum,
              maximum_capacity |-> inventory.maximum,
              on_order |-> inventory.on_order,
              reorder_needed |-> reorder_needed,
              suggested_order_quantity |-> suggested_quantity,
              stock_status |-> IF reorder_needed THEN "Low" ELSE "Adequate",
              stock_level_percentage |-> stock_level_percentage]

\* check_inventory with current + on_order <= minimum for <
check_inventory_at_minimum(item) ==
    LET inventory == Get(inventory_db, lower(item), default_inventory)
        reorder_needed == inventory.current + inventory.on_order <= inventory.minimum
        suggested_quantity ==
            Max(0, inventory.minimum - inventory.current - inventory.on_order)
        stock_level_percentage ==
            IF inventory.maximum > 0
                THEN TrueDiv(inventory.current * 100, inventory.maximum)
                ELSE RatZero
    IN  IF IsException(stock_level_percentage) THEN stock_level_percentage
        ELSE [item |-> item,
              current_stock |-> inventory.current,
              minimum_required |-> inventory.minimum,
              maximum_capacity |-> inventory.maximum,
              on_order |-> inventory.on_order,
              reorder_needed |-> reorder_needed,
              suggested_order_quantity |-> suggested_quantity,
              stock_status |-> IF reorder_needed THEN "Low" ELSE "Adequate",
              stock_level_percentage |-> stock_level_percentage]

\* check_inventory with maximum / current for current / maximum
check_inventory_inverted(item) ==
    LET inventory == Get(inventory_db, lower(item), default_inventory)
        reorder_needed == inventory.current + inventory.on_order < inventory.minimum
        suggested_quantity ==
            Max(0, inventory.minimum - inventory.current - inventory.on_order)
        stock_level_percentage ==
            IF inventory.maximum > 0
                THEN TrueDiv(inventory.maximum * 100, inventory.current)
                ELSE RatZero
    IN  IF IsException(stock_level_percentage) THEN stock_level_percentage
        ELSE [item |-> item,
              current_stock |-> inventory.current,
              minimum_required |-> inventory.minimum,
              maximum_capacity |-> inventory.maximum,
              on_order |-> inventory.on_order,
              reorder_needed |-> reorder_needed,
              suggested_order_quantity |-> suggested_quantity,
              stock_status |-> IF reorder_needed THEN "Low" ELSE "Adequate",
              stock_level_percentage |-> stock_level_percentage]

check_inventory(item) ==
    LET inventory == Get(inventory_db, lower(item), default_inventory)
        reorder_needed == inventory.current + inventory.on_order < inventory.minimum
        suggested_quantity ==
            Max(0, inventory.minimum - inventory.current - inventory.on_order)
        stock_level_percentage ==
            IF inventory.maximum > 0
                THEN TrueDiv(inventory.current * 100, inventory.maximum)
                ELSE RatZero
    IN  IF IsException(stock_level_percentage) THEN stock_level_percentage
        ELSE [item |-> item,
              current_stock |-> inventory.current,
              minimum_required |-> inventory.minimum,
              maximum_capacity |-> inventory.maximum,
              on_order |-> inventory.on_order,
              reorder_needed |-> reorder_needed,
              suggested_order_quantity |-> suggested_quantity,
              stock_status |-> IF reorder_needed THEN "Low" ELSE "Adequate",
              stock_level_percentage |-> stock_level_percentage]

----------------------------------------------------------------------------
(* StreamlitProcurementWorkflow *)

Recommendation(t, p, m) == [type |-> t, priority |-> p, message |-> m]

\* _generate_recommendations that appends the cost entry before the budget entry
_generate_recommendations_cost_first(inventory, suppliers, cost_opt, budget, approval) ==
    LET inventory_part ==
            IF Get(inventory, "reorder_needed", FALSE)
                THEN << Recommendation("inventory", "high",
                            <<"URGENT: Stock level critical", inventory.stock_status>>) >>
                ELSE << >>
        budget_part ==
            IF Get(budget, "approved", FALSE)
                THEN << Recommendation("budget", "good",
                            <<"Budget approved - proceed with purchase">>) >>
                ELSE << Recommendation("budget", "high",
                            <<"Budget shortfall", Get(budget, "shortfall", 0)>>) >>
        cost_part ==
            IF Get(cost_opt, "potential_savings", 0) > 0
                THEN << Recommendation("cost", "medium",
                            <<"Save with recommended supplier", cost_opt.potential_savings>>) >>
                ELSE << >>
        timeline_part ==
            << Recommendation("timeline", "info",
                   <<"Lead time", Get(cost_opt, "lead_time", "Unknown")>>) >>
        approval_part ==
            IF Get(approval, "auto_approved", FALSE)
                THEN << Recommendation("approval", "good",
                            <<"Auto-approved - can proceed immediately">>) >>
                ELSE << Recommendation("approval", "medium",
                            <<"approval needed", approval.required_approval,
                              approval.estimated_approval_time>>) >>
    IN  inventory_part \o cost_part \o budget_part \o timeline_part \o approval_part

\* a message is the tuple of its fixed text and the values formatted into it
_generate_recommendations(inventory, suppliers, cost_opt, budget, approval) ==
    LET inventory_part ==
            IF Get(inventory, "reorder_needed", FALSE)
                THEN << Recommendation("inventory", "high",
                            <<"URGENT: Stock level critical", inventory.stock_status>>) >>
                ELSE << >>
        budget_part ==
            IF Get(budget, "approved", FALSE)
                THEN << Recommendation("budget", "good",
                            <<"Budget approved - proceed with purchase">>) >>
                ELSE << Recommendation("budget", "high",
                            <<"Budget shortfall", Get(budget, "shortfall", 0)>>) >>
        cost_part ==
            IF Get(cost_opt, "potential_savings", 0) > 0
                THEN << Recommendation("cost", "medium",
                            <<"Save with recommended supplier", cost_opt.potential_savings>>) >>
                ELSE << >>
        timeline_part ==
            << Recommendation("timeline", "info",
                   <<"Lead time", Get(cost_opt, "lead_time", "Unknown")>>) >>
        approval_part ==
            IF Get(approval, "auto_approved", FALSE)
                THEN << Recommendation("approval", "good",
                            <<"Auto-approved - can proceed immediately">>) >>
                ELSE << Recommendation("approval", "medium",
                            <<"approval needed", approval.required_approval,
                              approval.estimated_approval_time>>) >>
    IN  inventory_part \o budget_part \o cost_part \o timeline_part \o approval_part

\* _determine_status whose second branch tests reorder_needed alone
_determine_status_reorder(budget, approval, inventory) ==
    IF ~ Get(budget, "approved", FALSE) THEN "rejected"
    ELSE IF Get(inventory, "reorder_needed", FALSE) THEN "approved"
    ELSE IF ~ Get(approval, "auto_approved", FALSE) THEN "pending_approval"
    ELSE "approved"

_determine_status(budget, approval, inventory) ==
    IF ~ Get(budget, "approved", FALSE) THEN "rejected"
    ELSE IF Get(inventory, "reorder_needed", FALSE) /\ Get(approval, "auto_approved", FALSE)
        THEN "approved"
    ELSE IF ~ Get(approval, "auto_approved", FALSE) THEN "pending_approval"
    ELSE "approved"

\* the except branch: {"error": f"Processing failed: {str(e)}"}
ProcessingFailed(e) == [error |-> <<"Processing failed", e.exception>>]

\* request_id is the uuid4 drawn for the request; the timestamp is left out
process_request(request, request_id) ==
    LET inventory_check == check_inventory(request.item)
        suppliers == find_suppliers(request.item, request.quantity)
        cost_optimization == optimize_cost(suppliers.suppliers, request.quantity)
        budget_check ==
            check_budget_availability(request.department,
                                      Get(cost_optimization, "total_cost", 0))
        approval_check ==
            check_approval_required(Get(cost_optimization, "total_cost", 0),
                                    request.department)
    IN  IF IsException(inventory_check) THEN ProcessingFailed(inventory_check)
        ELSE IF IsException(cost_optimization) THEN ProcessingFailed(cost_optimization)
        ELSE IF IsException(budget_check) THEN ProcessingFailed(budget_check)
        ELSE [request_id |-> request_id,
              request_details |-> request,
              inventory_analysis |-> inventory_check,
              supplier_analysis |-> suppliers,
              cost_optimization |-> cost_optimization,
              budget_validation |-> budget_check,
              approval_requirements |-> approval_check,
              recommendations |->
                  _generate_recommendations(inventory_check, suppliers,
                      cost_optimization, budget_check, approval_check),
              overall_status |->
                  _determine_status(budget_check, approval_check, inventory_check)]

----------------------------------------------------------------------------
(* Inputs *)

\* the four catalog items, two spellings str.lower() folds, and an unknown item
Items == {"laptops", "office_chairs", "printers", "monitors",
          "Laptops", "PRINTERS", "scanners"}

\* the five departments of the tables and two the tables do not hold
Departments == {"IT", "HR", "Marketing", "Operations", "Finance", "Legal", "it"}

Quantities == 1..MaxQuantity

RequestIds == 1..MaxRequestId

\* every threshold an amount is compared with, in cents
Thresholds ==
    {Dollars(department_budgets[d].remaining) : d \in DOMAIN department_budgets}
    \cup {Dollars(default_budget.remaining)}
    \cup UNION {{Dollars(approval_matrix[d].manager), Dollars(approval_matrix[d].director),
                 Dollars(approval_matrix[d].vp)} : d \in DOMAIN approval_matrix}
    \cup {Dollars(default_limits.manager), Dollars(default_limits.director),
          Dollars(default_limits.vp)}

Amounts ==
    {k * AmountStep : k \in 0..MaxAmountSteps}
    \cup {a \in {t + c : t \in Thresholds, c \in {-1, 0, 1}} : a >= 0}

\* offers for direct calls of optimize_cost: A and B share price/rating,
\* B and D share the highest price
TestOffers ==
    { Offer("A", 20000, 10, 5, 20), Offer("B", 40000, 10, 6, 40),
      Offer("C", 30000, 10, 7, 20), Offer("D", 40000, 10, 8, 50) }

OfferLists == UNION {[1..n -> TestOffers] : n \in 0..MaxOffers}

\* items for direct calls of _generate_recommendations: one to reorder, two
\* not to, and an unknown one
RecommendationItems == {"laptops", "printers", "monitors", "scanners"}

Request(item, quantity, department) ==
    [item |-> item, quantity |-> quantity, department |-> department,
     justification |-> "justification"]

----------------------------------------------------------------------------
(* State machine *)

None == [none |-> TRUE]

Idle == [op |-> "idle"]

Init ==
    /\ procurement_history = << >>
    /\ current_request = None
    /\ call = Idle

Invoke(op, args, result) ==
    /\ call' = [op |-> op, args |-> args, result |-> result]
    /\ UNCHANGED <<procurement_history, current_request>>

CallFindSuppliers ==
    /\ call = Idle
    /\ \E item \in Items, quantity \in Quantities :
          Invoke("find_suppliers", [item |-> item, quantity |-> quantity],
                 find_suppliers(item, quantity))

CallCheckBudgetAvailability ==
    /\ call = Idle
    /\ \E department \in Departments, amount \in Amounts :
          Invoke("check_budget_availability",
                 [department |-> department, amount |-> amount],
                 check_budget_availability(department, amount))

CallOptimizeCost ==
    /\ call = Idle
    /\ \E suppliers \in OfferLists, quantity \in Quantities :
          Invoke("optimize_cost", [suppliers |-> suppliers, quantity |-> quantity],
                 optimize_cost(suppliers, quantity))

CallCheckApprovalRequired ==
    /\ call = Idle
    /\ \E department \in Departments, amount \in Amounts :
          Invoke("check_approval_required",
                 [amount |-> amount, department |-> department],
                 check_approval_required(amount, department))

CallCheckInventory ==
    /\ call = Idle
    /\ \E item \in Items :
          Invoke("check_inventory", [item |-> item], check_inventory(item))

\* _determine_status on the results of the three checks it is given
CallDetermineStatus ==
    /\ call = Idle
    /\ \E department \in Departments, amount \in Amounts, item \in Items :
          LET budget == check_budget_availability(department, amount)
              approval == check_approval_required(amount, department)
              inventory == check_inventory(item)
          IN  Invoke("_determine_status",
                     [budget |-> budget, approval |-> approval, inventory |-> inventory],
                     _determine_status(budget, approval, inventory))

\* _generate_recommendations on the results of the agents: the inventory of
\* one item, the suppliers and the cost of another, the checks of the cost
CallGenerateRecommendations ==
    /\ call = Idle
    /\ \E stocked \in RecommendationItems, item \in RecommendationItems,
         quantity \in Quantities, department \in Departments :
          LET inventory == check_inventory(stocked)
              suppliers == find_suppliers(item, quantity)
              cost_opt == optimize_cost(suppliers.suppliers, quantity)
              budget == check_budget_availability(department,
                                                  Get(cost_opt, "total_cost", 0))
              approval == check_approval_required(Get(cost_opt, "total_cost", 0),
                                                  department)
          IN  Invoke("_generate_recommendations",
                     [inventory |-> inventory, suppliers |-> suppliers,
                      cost_opt |-> cost_opt, budget |-> budget, approval |-> approval],
                     _generate_recommendations(inventory, suppliers, cost_opt,
                                               budget, approval))

CallProcessRequest ==
    /\ call = Idle
    /\ \E item \in Items, quantity \in Quantities, department \in Departments,
         request_id \in RequestIds :
          Invoke("process_request",
                 [request |-> Request(item, quantity, department)],
                 process_request(Request(item, quantity, department), request_id))

\* a call of an agent or of the workflow has not returned yet
InProgress == call # Idle /\ "processed" \notin DOMAIN call

Return ==
    /\ InProgress
    /\ call' = Idle
    /\ UNCHANGED <<procurement_history, current_request>>

Next ==
    \/ CallFindSuppliers
    \/ CallCheckBudgetAvailability
    \/ CallOptimizeCost
    \/ CallCheckApprovalRequired
    \/ CallCheckInventory
    \/ CallDetermineStatus
    \/ CallGenerateRecommendations
    \/ CallProcessRequest
    \/ Return

Spec == Init /\ [][Next]_vars

----------------------------------------------------------------------------
(* The Streamlit session: the handlers that write the session state.  A step
   of the session leaves in call the handler that ran, what it read and what
   it produced. *)

\* str.strip() on the justifications the model draws
strip(text) ==
    CASE text = "   " -> ""
      [] OTHER -> text

\* the form's test with not justification for not justification.strip()
justification_missing_unstripped(justification) == justification = ""

\* if not justification.strip()
justification_missing(justification) == strip(justification) = ""

\* the widgets of the form: one item, two departments, three quantities
\* (the last above every availability), the optional fields left at their defaults
FormItems == {"laptops"}
FormQuantities == {5, 20, MaxQuantity}
FormDepartments == {"IT", "HR"}
FormUrgencies == {"Normal"}
Justifications == {"", "   ", "Team expansion"}
PreferredSuppliers == {"No Preference"}
FormMaxBudgets == {0}

\* the request the form builds from its widgets
FormRequest(item, quantity, department, urgency, justification, preferred_supplier, max_budget) ==
    [item |-> item,
     quantity |-> quantity,
     department |-> department,
     urgency |-> urgency,
     justification |-> justification,
     preferred_supplier |->
         IF preferred_supplier # "No Preference" THEN preferred_supplier ELSE None,
     max_budget |-> IF max_budget > 0 THEN max_budget ELSE None]

\* procurement_history.append(result), put at the front
save_to_history_front(history, result) == <<result>> \o history

\* st.session_state.procurement_history.append(result)
save_to_history(history, result) == Append(history, result)

\* what a handler leaves in call
Handled(op, args, processed, result) ==
    [op |-> op, args |-> args, processed |-> processed, result |-> result]

\* if submitted: ... of show_procurement_form
SubmitForm ==
    \E justification \in Justifications :
        IF justification_missing(justification)
        THEN /\ call' = Handled("show_procurement_form",
                                [justification |-> justification], FALSE, None)
             /\ UNCHANGED <<procurement_history, current_request>>
        ELSE /\ Len(procurement_history) < MaxHistory
             /\ \E item \in FormItems, quantity \in FormQuantities,
                   department \in FormDepartments, urgency \in FormUrgencies,
                   preferred_supplier \in PreferredSuppliers,
                   max_budget \in FormMaxBudgets, request_id \in RequestIds :
                    LET request == FormRequest(item, quantity, department, urgency,
                                       justification, preferred_supplier, max_budget)
                        result == process_request(request, request_id)
                    IN  /\ call' = Handled("show_procurement_form", request, TRUE, result)
                        /\ IF "error" \in DOMAIN result
                           THEN UNCHANGED <<procurement_history, current_request>>
                           ELSE /\ procurement_history' =
                                       save_to_history(procurement_history, result)
                                /\ current_request' = result

sample_requests ==
    << [item |-> "laptops", quantity |-> 20, department |-> "IT",
        justification |-> "Team expansion"],
       [item |-> "office_chairs", quantity |-> 50, department |-> "HR",
        justification |-> "New office setup"],
       [item |-> "printers", quantity |-> 5, department |-> "Marketing",
        justification |-> "Marketing materials"] >>

\* the loop of the full workflow demo: the history after the requests from
\* the i-th on were processed, results being the results of all of them
RECURSIVE demo_loop(_, _, _)
demo_loop(history, results, i) ==
    IF i > Len(results) THEN history
    ELSE demo_loop(IF "error" \notin DOMAIN results[i]
                       THEN save_to_history(history, results[i])
                       ELSE history,
                   results, i + 1)

\* if st.button("Run Full Demo"): ... of show_system_demo
RunFullDemo ==
    /\ Len(procurement_history) < MaxHistory
    /\ \E request_ids \in [1..Len(sample_requests) -> RequestIds] :
          LET results == [i \in 1..Len(sample_requests) |->
                             process_request(sample_requests[i], request_ids[i])]
          IN  /\ procurement_history' = demo_loop(procurement_history, results, 1)
              /\ call' = Handled("show_system_demo", sample_requests, TRUE, results)
              /\ UNCHANGED current_request

\* reset_system without its second assignment: the current request is kept
ResetSystem_history_only ==
    /\ procurement_history' = << >>
    /\ UNCHANGED current_request
    /\ call' = Handled("reset_system", << >>, FALSE, None)

\* if st.button("Reset System"): reset_system()
ResetSystem ==
    /\ procurement_history' = << >>
    /\ current_request' = None
    /\ call' = Handled("reset_system", << >>, FALSE, None)

SessionNext ==
    \/ SubmitForm
    \/ RunFullDemo
    \/ ResetSystem

SessionSpec == Init /\ [][SessionNext]_vars

\* the quick stats of the sidebar and the performance metrics of the demo
\* tab, which every run of the script computes from the history

total_requests(history) == Len(history)

\* sum(1 for r in history if r.get('overall_status') == 'approved')
approved_requests(history) ==
    Cardinality({i \in 1..Len(history) :
                    /\ "overall_status" \in DOMAIN history[i]
                    /\ history[i].overall_status = "approved"})

\* the approval rate computed without the test of total_requests
approval_rate_unguarded(history) ==
    TrueDiv(approved_requests(history) * 100, total_requests(history))

\* (approved_requests / total_requests) * 100, None when it is not computed
approval_rate(history) ==
    IF total_requests(history) > 0
        THEN TrueDiv(approved_requests(history) * 100, total_requests(history))
        ELSE None

\* len([r for r in history if "error" not in r]) / len(history) * 100,
\* None when the metrics are not shown
success_rate(history) ==
    IF history # << >>
        THEN TrueDiv(Cardinality({i \in 1..Len(history) :
                                     "error" \notin DOMAIN history[i]}) * 100,
                     Len(history))
        ELSE None

\* a run of the script handles one event of the session; the runs of a
\* session follow one another, so none starts while a call is in progress
HandleEvent ==
    /\ ~ InProgress
    /\ SessionNext

\* the application: the calls of the agents and of the workflow, which leave
\* the session state alone, and the handlers of the session
AppNext ==
    \/ Next
    \/ HandleEvent

AppSpec == Init /\ [][AppNext]_vars

----------------------------------------------------------------------------
(* Properties *)

Called(op) == call.op = op

KnownDepartments == {"IT", "HR", "Marketing", "Operations", "Finance"}

CatalogItems == {"laptops", "office_chairs", "printers", "monitors"}

\* C1: check_budget_availability for a known department: an amount within the
\* department's remaining budget is approved with shortfall 0, an amount above
\* it is not approved and the shortfall is amount - remaining.
C1_BudgetApprovedIffWithinRemaining ==
    (Called("check_budget_availability")
        /\ call.args.department \in KnownDepartments) =>
        LET amount == call.args.amount
            remaining == Dollars(department_budgets[call.args.department].remaining)
        IN  /\ amount <= remaining =>
                call.result.approved /\ call.result.shortfall = 0
            /\ amount > remaining =>
                ~ call.result.approved /\ call.result.shortfall = amount - remaining

\* IT asked for one cent more than its remaining 27000 dollars
C1_Witness ==
    /\ Called("check_budget_availability")
    /\ call.args.department = "IT"
    /\ call.args.amount = 2700001
    /\ ~ call.result.approved
    /\ call.result.shortfall = 1

\* the limits check_approval_required is to use for a department
C2_Limits(department) ==
    IF department \in KnownDepartments THEN approval_matrix[department]
    ELSE [manager |-> 1000, director |-> 5000, vp |-> 15000]

\* C2: check_approval_required is a strict ladder over the department's limits
\* (the default limits 1000, 5000, 15000 for a department not in the matrix):
\* Manager/1-2 days, Director/3-5 days, VP/5-7 days, CEO/7-14 days, and
\* auto_approved exactly at the Manager tier.
C2_ApprovalLadder ==
    Called("check_approval_required") =>
        LET amount == call.args.amount
            limits == C2_Limits(call.args.department)
            r == call.result
            expected ==
                IF amount <= Dollars(limits.manager) THEN <<"Manager", "1-2 days">>
                ELSE IF amount <= Dollars(limits.director) THEN <<"Director", "3-5 days">>
                ELSE IF amount <= Dollars(limits.vp) THEN <<"VP", "5-7 days">>
                ELSE <<"CEO", "7-14 days">>
        IN  /\ r.approval_limits = limits
            /\ <<r.required_approval, r.estimated_approval_time>> = expected
            /\ r.auto_approved <=> (r.required_approval = "Manager")

\* an unknown department at exactly the default director limit
C2_Witness ==
    /\ Called("check_approval_required")
    /\ call.args.department = "Legal"
    /\ call.args.amount = 500000
    /\ call.result.required_approval = "Director"
    /\ call.result.estimated_approval_time = "3-5 days"
    /\ ~ call.result.auto_approved

TierRank(tier) ==
    CASE tier = "Manager" -> 1
      [] tier = "Director" -> 2
      [] tier = "VP" -> 3
      [] tier = "CEO" -> 4

\* C3: the approval tier is monotonic in the amount: for the department of the
\* call, no amount below the call's amount gets a higher tier than the call's.
C3_TierMonotonic ==
    Called("check_approval_required") =>
        \A a1 \in Amounts :
            a1 <= call.args.amount =>
                TierRank(check_approval_required(a1, call.args.department).required_approval)
                    <= TierRank(call.result.required_approval)

\* a call answered VP, with smaller amounts of the three tiers up to it
C3_Witness ==
    /\ Called("check_approval_required")
    /\ call.result.required_approval = "VP"
    /\ \A t \in {"Manager", "Director", "VP"} :
          \E a1 \in Amounts :
              /\ a1 < call.args.amount
              /\ check_approval_required(a1, call.args.department).required_approval = t

\* C4: _determine_status is the three-way rule (budget not approved: rejected;
\* else auto-approved: approved; else pending_approval), and the inventory's
\* reorder_needed flag does not change the status.
C4_StatusThreeWay ==
    Called("_determine_status") =>
        LET budget == call.args.budget
            approval == call.args.approval
            inventory == call.args.inventory
            rule == IF ~ budget.approved THEN "rejected"
                    ELSE IF approval.auto_approved THEN "approved"
                    ELSE "pending_approval"
        IN  /\ call.result = rule
            /\ \A flag \in BOOLEAN :
                  _determine_status(budget, approval,
                      [inventory EXCEPT !.reorder_needed = flag]) = call.result

\* budget approved, not auto-approved, reorder needed: the branch on the
\* inventory is passed over and the status is pending_approval
C4_Witness ==
    /\ Called("_determine_status")
    /\ call.args.budget.approved
    /\ ~ call.args.approval.auto_approved
    /\ call.args.inventory.reorder_needed
    /\ call.result = "pending_approval"

\* the catalog offers of an item, as the tables list them
CatalogOf(item) == IF item \in CatalogItems THEN suppliers_db[item] ELSE << >>

ExceedsEveryOffer(item, quantity) ==
    \A i \in 1..Len(CatalogOf(item)) : quantity > CatalogOf(item)[i].availability

IsErrorIndicator(r) ==
    /\ "error" \in DOMAIN r
    /\ "recommended_supplier" \notin DOMAIN r
    /\ "total_cost" \notin DOMAIN r

\* C5: for a catalog item and a quantity above the availability of every offer
\* of the item, find_suppliers returns no supplier and total_suppliers_found 0,
\* and optimize_cost on that list returns an error indicator.
C5_NoSupplierIsAnError ==
    /\ (Called("find_suppliers")
            /\ call.args.item \in CatalogItems
            /\ ExceedsEveryOffer(call.args.item, call.args.quantity)) =>
            /\ call.result.suppliers = << >>
            /\ call.result.total_suppliers_found = 0
            /\ IsErrorIndicator(optimize_cost(call.result.suppliers, call.args.quantity))
    /\ (Called("process_request")
            /\ call.args.request.item \in CatalogItems
            /\ ExceedsEveryOffer(call.args.request.item, call.args.request.quantity)) =>
            /\ call.result.supplier_analysis.suppliers = << >>
            /\ call.result.supplier_analysis.total_suppliers_found = 0
            /\ IsErrorIndicator(call.result.cost_optimization)

\* 101 laptops: the largest offer holds 100
C5_Witness ==
    /\ Called("process_request")
    /\ call.args.request.item = "laptops"
    /\ call.args.request.quantity = 101
    /\ call.result.supplier_analysis.total_suppliers_found = 0
    /\ "error" \in DOMAIN call.result.cost_optimization

\* price(x)/rating(x) compared with price(y)/rating(y)
RatioBelow(x, y) == x.price * y.rating < y.price * x.rating
RatioSame(x, y) == x.price * y.rating = y.price * x.rating

\* i is the first position of suppliers whose price/rating is minimal
IsFirstMinimal(suppliers, i) ==
    /\ \A j \in 1..Len(suppliers) : ~ RatioBelow(suppliers[j], suppliers[i])
    /\ \A j \in 1..(i - 1) : ~ RatioSame(suppliers[j], suppliers[i])

Recommends(r, offer) ==
    /\ r.recommended_supplier = offer.name
    /\ r.unit_price = offer.price
    /\ r.lead_time = offer.lead_time
    /\ r.supplier_rating = offer.rating

\* C6: optimize_cost on a non-empty list recommends an offer of minimal
\* price/rating, the first of the list among those that share the minimum.
C6_FirstMinimalRatio ==
    /\ (Called("optimize_cost") /\ call.args.suppliers # << >>) =>
            \E i \in 1..Len(call.args.suppliers) :
                /\ IsFirstMinimal(call.args.suppliers, i)
                /\ Recommends(call.result, call.args.suppliers[i])
    /\ (Called("process_request")
            /\ call.result.supplier_analysis.suppliers # << >>) =>
            \E i \in 1..Len(call.result.supplier_analysis.suppliers) :
                /\ IsFirstMinimal(call.result.supplier_analysis.suppliers, i)
                /\ Recommends(call.result.cost_optimization,
                              call.result.supplier_analysis.suppliers[i])

\* B (400.00 at 4.0) before A (200.00 at 2.0): the same price/rating, B is first
C6_Witness ==
    /\ Called("optimize_cost")
    /\ Len(call.args.suppliers) >= 2
    /\ call.args.suppliers[1].name = "B"
    /\ call.args.suppliers[2].name = "A"
    /\ call.result.recommended_supplier = "B"

\* C7: find_suppliers returns exactly the catalog offers of the item whose
\* availability is at least the quantity, in catalog order; the supplier
\* process_request recommends, when there is one, has availability >= quantity.
C7_SuitableSuppliersOnly ==
    /\ Called("find_suppliers") =>
            LET catalog == CatalogOf(lower(call.args.item))
                got == call.result.suppliers
                quantity == call.args.quantity
            IN  /\ \A i \in 1..Len(got) :
                      \E k \in 1..Len(catalog) :
                          catalog[k] = got[i] /\ got[i].availability >= quantity
                /\ \A k \in 1..Len(catalog) :
                      catalog[k].availability >= quantity =>
                          \E i \in 1..Len(got) : got[i] = catalog[k]
                /\ \A i, j \in 1..Len(got) :
                      i < j =>
                          \E k, l \in 1..Len(catalog) :
                              k < l /\ catalog[k] = got[i] /\ catalog[l] = got[j]
                /\ call.result.total_suppliers_found = Len(got)
    /\ (Called("process_request")
            /\ "recommended_supplier" \in DOMAIN call.result.cost_optimization) =>
            LET catalog == CatalogOf(lower(call.args.request.item))
            IN  \E k \in 1..Len(catalog) :
                    /\ catalog[k].name = call.result.cost_optimization.recommended_supplier
                    /\ catalog[k].availability >= call.args.request.quantity

\* 30 laptops: ElectroSupply holds exactly 30 and is kept, all three are returned
C7_Witness ==
    /\ Called("find_suppliers")
    /\ call.args.item = "laptops"
    /\ call.args.quantity = 30
    /\ Len(call.result.suppliers) = 3
    /\ call.result.suppliers[2].name = "ElectroSupply"

\* p is the highest price of the list
IsMaxPrice(suppliers, p) ==
    /\ \E i \in 1..Len(suppliers) : suppliers[i].price = p
    /\ \A i \in 1..Len(suppliers) : suppliers[i].price <= p

\* the figures optimize_cost is to report for the list and the quantity
CostFigures(r, suppliers, quantity) ==
    /\ \E i \in 1..Len(suppliers) :
          /\ suppliers[i].name = r.recommended_supplier
          /\ r.total_cost = suppliers[i].price * quantity
          /\ \E p \in {suppliers[k].price : k \in 1..Len(suppliers)} :
                /\ IsMaxPrice(suppliers, p)
                /\ r.potential_savings = (p - suppliers[i].price) * quantity
    /\ r.quantity = quantity

\* C8: optimize_cost reports total_cost = price of the recommended offer x
\* quantity and potential_savings = (highest price among the offers that
\* passed the quantity filter - price of the recommended offer) x quantity.
C8_CostAndSavings ==
    /\ (Called("optimize_cost") /\ call.args.suppliers # << >>) =>
            CostFigures(call.result, call.args.suppliers, call.args.quantity)
    /\ (Called("process_request")
            /\ call.result.supplier_analysis.suppliers # << >>) =>
            CostFigures(call.result.cost_optimization,
                        call.result.supplier_analysis.suppliers,
                        call.args.request.quantity)

\* 20 laptops: all three offers pass the filter, BusinessTech (879.99) is
\* recommended, TechCorp (899.99) is the highest price: 20 x 20.00 is saved
C8_Witness ==
    /\ Called("process_request")
    /\ call.args.request.item = "laptops"
    /\ call.args.request.quantity = 20
    /\ call.result.cost_optimization.recommended_supplier = "BusinessTech"
    /\ call.result.cost_optimization.total_cost = 1759980
    /\ call.result.cost_optimization.potential_savings = 40000

\* C9: check_budget_availability for a department not in the budget table
\* uses total = used = remaining = 0, refuses every amount > 0 with shortfall
\* equal to the amount, and returns utilization_rate 0 without a division by 0.
C9_UnknownDepartmentZeroBudget ==
    (Called("check_budget_availability")
        /\ call.args.department \notin KnownDepartments) =>
        /\ ~ IsException(call.result)
        /\ call.result.budget_status = [total |-> 0, used |-> 0, remaining |-> 0]
        /\ call.args.amount > 0 =>
              ~ call.result.approved /\ call.result.shortfall = call.args.amount
        /\ call.result.utilization_rate.num = 0

\* "it" is not the key "IT": one cent is refused
C9_Witness ==
    /\ Called("check_budget_availability")
    /\ call.args.department = "it"
    /\ call.args.amount = 1
    /\ ~ call.result.approved
    /\ call.result.shortfall = 1

\* C10: process_request, for every item and department, known or unknown, and
\* every positive quantity, returns a result without an 'error' key whose
\* overall_status is approved, pending_approval or rejected.
C10_DecisionAlwaysProduced ==
    (Called("process_request") /\ call.args.request.quantity > 0) =>
        /\ "error" \notin DOMAIN call.result
        /\ call.result.overall_status \in {"approved", "pending_approval", "rejected"}

\* an unknown department asks for a catalog item: zero budget, rejected
C10_Witness ==
    /\ Called("process_request")
    /\ call.args.request.item = "monitors"
    /\ call.args.request.department = "Legal"
    /\ "error" \notin DOMAIN call.result
    /\ call.result.overall_status = "rejected"

\* the inventory record check_inventory is to use for an item
C11_Record(item) ==
    IF lower(item) \in CatalogItems THEN inventory_db[lower(item)]
    ELSE [current |-> 0, minimum |-> 0, maximum |-> 0, on_order |-> 0]

\* r reports the record rec as check_inventory is to report it
C11_Reports(r, rec) ==
    /\ r.reorder_needed <=> (rec.current + rec.on_order < rec.minimum)
    /\ r.suggested_order_quantity =
          (IF rec.minimum - rec.current - rec.on_order > 0
              THEN rec.minimum - rec.current - rec.on_order ELSE 0)
    /\ r.stock_status = "Low" <=> r.reorder_needed
    /\ r.stock_status = "Adequate" <=> ~ r.reorder_needed
    /\ lower(r.item) \notin CatalogItems =>
          r.stock_status = "Adequate" /\ r.suggested_order_quantity = 0

\* C11: check_inventory reports reorder_needed = (current + on_order < minimum),
\* suggested_order_quantity = max(0, minimum - current - on_order), stock_status
\* Low exactly when reorder_needed and Adequate otherwise; an item not in the
\* inventory table is reported Adequate with suggested quantity 0.
C11_ReorderRule ==
    /\ Called("check_inventory") =>
          C11_Reports(call.result, C11_Record(call.args.item))
    /\ (Called("process_request") /\ "error" \notin DOMAIN call.result) =>
          C11_Reports(call.result.inventory_analysis,
                      C11_Record(call.args.request.item))

\* laptops: 15 in stock and 10 on order make the minimum of 25, no reorder
C11_Witness ==
    /\ Called("check_inventory")
    /\ call.args.item = "laptops"
    /\ call.result.current_stock + call.result.on_order = call.result.minimum_required
    /\ ~ call.result.reorder_needed
    /\ call.result.stock_status = "Adequate"

\* C12: stock_level_percentage is within [0, 100] for every item, known or
\* unknown (the table has 0 <= current <= maximum), and 0 when maximum is 0.
C12_StockLevelPercentage ==
    Called("check_inventory") =>
        /\ ~ IsException(call.result)
        /\ LET pct == call.result.stock_level_percentage
               rec == C11_Record(call.args.item)
           IN  /\ rec.current >= 0 /\ rec.current <= rec.maximum
               /\ pct.den > 0
               /\ 0 <= pct.num /\ pct.num <= 100 * pct.den
               /\ rec.maximum > 0 => pct.num * rec.maximum = rec.current * 100 * pct.den
               /\ rec.maximum = 0 => pct.num = 0

\* printers: 8 of 50 is 16 percent
C12_Witness ==
    /\ Called("check_inventory")
    /\ call.args.item = "PRINTERS"
    /\ call.result.maximum_capacity = 50
    /\ call.result.stock_level_percentage.num * 100
          = 16 * 100 * call.result.stock_level_percentage.den

BudgetRecordConsistent(rec) == rec.remaining = rec.total - rec.used

\* C15: every record of the budget table, and so the record every budget check
\* reports, satisfies remaining = total - used.
C15_RemainingIsTotalMinusUsed ==
    /\ \A d \in DOMAIN department_budgets :
          BudgetRecordConsistent(department_budgets[d])
    /\ Called("check_budget_availability") =>
          BudgetRecordConsistent(call.result.budget_status)

\* a budget check of Operations reports 75000 - 45000 = 30000
C15_Witness ==
    /\ Called("check_budget_availability")
    /\ call.args.department = "Operations"
    /\ call.result.budget_status.total = 75000
    /\ call.result.budget_status.used = 45000
    /\ call.result.budget_status.remaining = 30000

StrictlyIncreasing(limits) ==
    limits.manager < limits.director /\ limits.director < limits.vp

\* C16: every approval matrix check_approval_required can use, the five rows of
\* the table and the default row, has manager < director < vp.
C16_LimitsStrictlyIncreasing ==
    /\ \A d \in DOMAIN approval_matrix : StrictlyIncreasing(approval_matrix[d])
    /\ Called("check_approval_required") =>
          StrictlyIncreasing(call.result.approval_limits)

\* an unknown department is answered with the default row 1000 < 5000 < 15000
C16_Witness ==
    /\ Called("check_approval_required")
    /\ call.args.department \notin KnownDepartments
    /\ call.result.approval_limits.manager = 1000
    /\ call.result.approval_limits.director = 5000
    /\ call.result.approval_limits.vp = 15000

\* 10000 dollars
C17_Amount == 10000 * 100

\* C17: for department IT and amount 10000, check_budget_availability approves
\* and check_approval_required requires Director, not auto-approved.
C17_ExampleIT10000 ==
    /\ (Called("check_budget_availability")
            /\ call.args.department = "IT" /\ call.args.amount = C17_Amount) =>
            call.result.approved
    /\ (Called("check_approval_required")
            /\ call.args.department = "IT" /\ call.args.amount = C17_Amount) =>
            /\ call.result.required_approval = "Director"
            /\ ~ call.result.auto_approved
    /\ (Called("_determine_status")
            /\ call.args.budget.department = "IT"
            /\ call.args.budget.requested_amount = C17_Amount) =>
            /\ call.args.budget.approved
            /\ call.args.approval.required_approval = "Director"
            /\ ~ call.args.approval.auto_approved

\* both checks made for IT and 10000, as _determine_status is handed them
C17_Witness ==
    /\ Called("_determine_status")
    /\ call.args.budget.department = "IT"
    /\ call.args.budget.requested_amount = C17_Amount
    /\ call.args.approval.department = "IT"
    /\ call.args.approval.amount = C17_Amount
    /\ call.args.budget.approved
    /\ call.args.approval.required_approval = "Director"

C18_Case ==
    /\ Called("check_budget_availability")
    /\ call.args.department = "IT"
    /\ call.args.amount = C17_Amount

\* C18 as claimed: for IT and 10000 the budget lookup reports remaining 17000.
C18_RemainingIs17000 ==
    C18_Case => call.result.budget_status.remaining = 17000

\* C18 as amended: for IT and 10000 the budget lookup reports remaining 27000,
\* the table's value; the requested amount is not deducted from it.
C18_RemainingIs27000 ==
    C18_Case =>
        /\ call.result.budget_status.remaining = 27000
        /\ call.result.budget_status.remaining
              = call.result.budget_status.total - call.result.budget_status.used

C18_Witness ==
    /\ C18_Case
    /\ call.result.approved
    /\ call.result.budget_status.remaining = 27000

\* the names of the offers of a list, in order
Names(suppliers) == [i \in 1..Len(suppliers) |-> suppliers[i].name]

\* of PrintTech and OfficePrint, the one with the smaller price/rating
C19_Cheaper ==
    LET printTech == CatalogOf("printers")[1]
        officePrint == CatalogOf("printers")[2]
    IN  IF RatioBelow(officePrint, printTech) THEN officePrint.name ELSE printTech.name

\* C19: for printers and quantity 20, find_suppliers returns exactly PrintTech
\* (availability 25) and OfficePrint (availability 40), not ReliablePrint (15),
\* and optimize_cost recommends the one of the two with the smaller price/rating.
C19_ExamplePrinters20 ==
    /\ (Called("find_suppliers")
            /\ call.args.item = "printers" /\ call.args.quantity = 20) =>
            /\ Names(call.result.suppliers) = <<"PrintTech", "OfficePrint">>
            /\ call.result.suppliers[1].availability = 25
            /\ call.result.suppliers[2].availability = 40
            /\ optimize_cost(call.result.suppliers, 20).recommended_supplier
                  = C19_Cheaper
    /\ (Called("process_request")
            /\ call.args.request.item = "printers"
            /\ call.args.request.quantity = 20) =>
            /\ Names(call.result.supplier_analysis.suppliers)
                  = <<"PrintTech", "OfficePrint">>
            /\ call.result.cost_optimization.recommended_supplier = C19_Cheaper

\* 459.99 / 4.4 is below 429.99 / 4.1: PrintTech is recommended
C19_Witness ==
    /\ Called("process_request")
    /\ call.args.request.item = "printers"
    /\ call.args.request.quantity = 20
    /\ call.result.supplier_analysis.total_suppliers_found = 2
    /\ call.result.cost_optimization.recommended_supplier = "PrintTech"

\* the budget record of a department as the table holds it
C13_TableRecord(department) ==
    IF department \in KnownDepartments THEN department_budgets[department]
    ELSE [total |-> 0, used |-> 0, remaining |-> 0]

SameRequest(e, f) ==
    /\ e.request_details.item = f.request_details.item
    /\ e.request_details.quantity = f.request_details.quantity
    /\ e.request_details.department = f.request_details.department

\* C13: the budget ledger is only read.  Whatever was processed before it,
\* every result of the history reports the total, used and remaining budget
\* of its department as the table holds them, and two results for the same
\* item, quantity and department have the same budget check, approval tier
\* and overall status.
C13_LedgerOnlyRead ==
    \A i \in 1..Len(procurement_history) :
        LET e == procurement_history[i]
        IN  /\ e.budget_validation.budget_status
                  = C13_TableRecord(e.request_details.department)
            /\ \A j \in 1..Len(procurement_history) :
                  SameRequest(e, procurement_history[j]) =>
                      /\ procurement_history[j].budget_validation = e.budget_validation
                      /\ procurement_history[j].approval_requirements
                            = e.approval_requirements
                      /\ procurement_history[j].overall_status = e.overall_status

\* 20 laptops for IT (17599.80 of the remaining 27000) from the form, and again
\* as the first request of the full demo: both pass the budget check
C13_Witness ==
    /\ Len(procurement_history) >= 2
    /\ SameRequest(procurement_history[1], procurement_history[2])
    /\ procurement_history[1].request_details.department = "IT"
    /\ procurement_history[1].cost_optimization.total_cost = 1759980
    /\ procurement_history[2].budget_validation.approved
    /\ procurement_history[2].budget_validation.budget_status.remaining = 27000
    /\ procurement_history[2].overall_status = "pending_approval"

\* C14: a form submission with a non-empty justification whose processing
\* returns no error appends exactly that one result to the end of
\* procurement_history and makes it current_request; the entries already in
\* the history keep their values and their order.
C14_SubmitAppendsOne ==
    [][(/\ call'.op = "show_procurement_form"
        /\ call'.args.justification # ""
        /\ call'.processed
        /\ "error" \notin DOMAIN call'.result) =>
            /\ Len(procurement_history') = Len(procurement_history) + 1
            /\ \A i \in 1..Len(procurement_history) :
                  procurement_history'[i] = procurement_history[i]
            /\ procurement_history'[Len(procurement_history')] = call'.result
            /\ current_request' = call'.result]_vars

\* a submission processed with one result in the history already: it is the
\* second entry and the current request
C14_Witness ==
    /\ call.op = "show_procurement_form"
    /\ call.processed
    /\ Len(procurement_history) = 2
    /\ procurement_history[2] = call.result
    /\ procurement_history[1].request_details.quantity
          # call.result.request_details.quantity
    /\ current_request = call.result

\* C20: a form submission whose justification is empty or only whitespace is
\* rejected by the form: process_request is not called, procurement_history
\* and current_request are left as they were.
C20_BlankJustificationRejected ==
    [][(/\ call'.op = "show_procurement_form"
        /\ call'.args.justification \in {"", "   "}) =>
            /\ ~ call'.processed
            /\ procurement_history' = procurement_history
            /\ current_request' = current_request]_vars

\* a whitespace justification submitted with a result in the history
C20_Witness ==
    /\ call.op = "show_procurement_form"
    /\ call.args.justification = "   "
    /\ ~ call.processed
    /\ Len(procurement_history) >= 1
    /\ current_request = procurement_history[Len(procurement_history)]

\* the number of requests a handler processed to a result without "error"
Successes(handled) ==
    IF handled.op = "show_procurement_form"
        THEN IF handled.processed /\ "error" \notin DOMAIN handled.result THEN 1 ELSE 0
    ELSE IF handled.op = "show_system_demo"
        THEN Cardinality({i \in DOMAIN handled.result :
                             "error" \notin DOMAIN handled.result[i]})
    ELSE 0

\* C21: a reset, from whatever session state, leaves the history empty and
\* the current request None; every other handler lengthens the history by
\* the number of requests it processed successfully, so the length is the
\* number of successes since the last reset; and the first successful
\* submission after a reset leaves the history a fresh session would have,
\* the one result, which is also the current request.
C21_ResetStartsAfresh ==
    [][ /\ (call'.op = "reset_system")
            => (procurement_history' = << >> /\ current_request' = None)
        /\ (call'.op # "reset_system")
            => (Len(procurement_history') = Len(procurement_history) + Successes(call'))
        /\ (call.op = "reset_system" /\ Successes(call') = 1)
            => (/\ procurement_history' = << call'.result >>
                /\ current_request' = call'.result) ]_vars

\* a reset has run and the session is as at its start
C21_Witness ==
    /\ call.op = "reset_system"
    /\ procurement_history = << >>
    /\ current_request = None

\* the types of a list of recommendations, in the order of the list
Types(recommendations) == [i \in 1..Len(recommendations) |-> recommendations[i].type]

\* the types the inventory result and the cost result call for
TypesFor(inventory, cost_opt) ==
    (IF inventory.reorder_needed THEN <<"inventory">> ELSE << >>)
    \o <<"budget">>
    \o (IF "potential_savings" \in DOMAIN cost_opt /\ cost_opt.potential_savings > 0
            THEN <<"cost">> ELSE << >>)
    \o <<"timeline", "approval">>

\* C22: the recommendations come in the order inventory, budget, cost,
\* timeline, approval; the inventory entry is there exactly when
\* reorder_needed, the cost entry exactly when potential_savings > 0, the
\* budget, timeline and approval entries once each, so that the list has 3
\* to 5 entries; the list process_request puts in its result is that list.
C22_RecommendationOrder ==
    /\ Called("_generate_recommendations")
        => /\ Types(call.result) = TypesFor(call.args.inventory, call.args.cost_opt)
           /\ Len(call.result) \in 3..5
           /\ \A t \in {"budget", "timeline", "approval"} :
                 Cardinality({i \in 1..Len(call.result) : call.result[i].type = t}) = 1
    /\ (Called("process_request") /\ "error" \notin DOMAIN call.result)
        => /\ Types(call.result.recommendations)
                 = TypesFor(call.result.inventory_analysis, call.result.cost_optimization)
           /\ Len(call.result.recommendations) \in 3..5

\* a list with all five entries: an item to reorder and a cheaper recommended supplier
C22_Witness ==
    /\ Called("_generate_recommendations")
    /\ call.args.inventory.reorder_needed
    /\ call.args.cost_opt.potential_savings > 0
    /\ Types(call.result) = <<"inventory", "budget", "cost", "timeline", "approval">>

\* some recommendation of the list opens with the text
HasMessage(recommendations, text) ==
    \E i \in 1..Len(recommendations) : recommendations[i].message[1] = text

\* the budget entry of the list is the shortfall message
HasShortfall(recommendations) ==
    \E i \in 1..Len(recommendations) :
        /\ recommendations[i].type = "budget"
        /\ recommendations[i].priority = "high"
        /\ recommendations[i].message[1] = "Budget shortfall"

\* the approval entry of the list asks for one of the tiers
NeedsApprovalOf(recommendations, tiers) ==
    \E i \in 1..Len(recommendations) :
        /\ recommendations[i].type = "approval"
        /\ recommendations[i].message[1] = "approval needed"
        /\ recommendations[i].message[2] \in tiers

\* C23: in a result of process_request the overall status is 'rejected'
\* exactly when the budget recommendation is the shortfall message, it is
\* 'approved' exactly when the list holds both 'Budget approved' and
\* 'Auto-approved', and a 'pending_approval' result holds 'Budget approved'
\* and the request for a Director, VP or CEO approval.
C23_StatusMatchesRecommendations ==
    (Called("process_request") /\ "error" \notin DOMAIN call.result)
    => LET recommendations == call.result.recommendations
           overall_status == call.result.overall_status
       IN  /\ overall_status \in {"approved", "pending_approval", "rejected"}
           /\ (overall_status = "rejected") <=> HasShortfall(recommendations)
           /\ (overall_status = "approved")
                 <=> (/\ HasMessage(recommendations, "Budget approved - proceed with purchase")
                      /\ HasMessage(recommendations, "Auto-approved - can proceed immediately"))
           /\ (overall_status = "pending_approval")
                 => (/\ HasMessage(recommendations, "Budget approved - proceed with purchase")
                     /\ NeedsApprovalOf(recommendations, {"Director", "VP", "CEO"}))

\* a pending result: the budget is approved and a higher tier has to sign
C23_Witness ==
    /\ Called("process_request")
    /\ "error" \notin DOMAIN call.result
    /\ call.result.overall_status = "pending_approval"
    /\ call.result.inventory_analysis.reorder_needed
    /\ HasMessage(call.result.recommendations, "Budget approved - proceed with purchase")
    /\ NeedsApprovalOf(call.result.recommendations, {"VP"})

\* the result of a request no supplier can meet: the checks ran on amount 0
ApprovedWithoutSupplier(result) ==
    /\ "error" \notin DOMAIN result
    /\ result.supplier_analysis.total_suppliers_found = 0
    /\ IsErrorIndicator(result.cost_optimization)
    /\ result.budget_validation.requested_amount = 0
    /\ result.budget_validation.approved
    /\ result.budget_validation.shortfall = 0
    /\ result.approval_requirements.amount = 0
    /\ result.approval_requirements.required_approval = "Manager"
    /\ result.approval_requirements.auto_approved
    /\ result.overall_status = "approved"

\* C24: a request for a quantity above every offer of its item, or for an
\* item the catalog does not hold, is checked with amount 0: for every
\* department, in the tables or not, the budget is approved, the approval is
\* automatic at the Manager tier and the overall status is 'approved',
\* while cost_optimization is only an error and names no supplier; the
\* result has no 'error' key, and the form that submitted such a request
\* has appended the result to the history.
C24_NoSupplierStillApproved ==
    /\ (Called("process_request")
            /\ ExceedsEveryOffer(lower(call.args.request.item), call.args.request.quantity))
        => ApprovedWithoutSupplier(call.result)
    /\ (Called("show_procurement_form")
            /\ call.processed
            /\ ExceedsEveryOffer(lower(call.args.item), call.args.quantity))
        => /\ ApprovedWithoutSupplier(call.result)
           /\ Len(procurement_history) >= 1
           /\ procurement_history[Len(procurement_history)] = call.result
           /\ current_request = call.result

\* the form was submitted for more laptops than any supplier holds, after an
\* earlier request, and the history ends with the approved result
C24_Witness ==
    /\ Called("show_procurement_form")
    /\ call.processed
    /\ call.args.item = "laptops"
    /\ call.args.quantity = MaxQuantity
    /\ Len(procurement_history) = 2
    /\ procurement_history[2] = call.result
    /\ call.result.overall_status = "approved"
    /\ "error" \in DOMAIN call.result.cost_optimization

\* C25: whatever submissions, demo runs and resets came before, no entry of
\* the history has an 'error' key and each has one of the three overall
\* statuses; so the approved count of the sidebar is at most the total
\* count, the approval rate is computed exactly when the history is not
\* empty and is then between 0 and 100, and the success rate of the demo
\* tab, shown for a non-empty history, is 100.
C25_HistoryHoldsDecisions ==
    /\ \A i \in 1..Len(procurement_history) :
          /\ "error" \notin DOMAIN procurement_history[i]
          /\ procurement_history[i].overall_status
                \in {"approved", "pending_approval", "rejected"}
    /\ approved_requests(procurement_history) <= total_requests(procurement_history)
    /\ (procurement_history = << >>)
        => /\ approval_rate(procurement_history) = None
           /\ success_rate(procurement_history) = None
    /\ (procurement_history # << >>)
        => LET rate == approval_rate(procurement_history)
               success == success_rate(procurement_history)
           IN  /\ "num" \in DOMAIN rate /\ "num" \in DOMAIN success
               /\ rate.den > 0
               /\ 0 <= rate.num /\ rate.num <= 100 * rate.den
               /\ success.num = 100 * success.den

\* after a submission and a demo run the history holds approved entries and
\* others: the approval rate is strictly between 0 and 100
C25_Witness ==
    /\ Called("show_system_demo")
    /\ Len(procurement_history) > Len(sample_requests)
    /\ approved_requests(procurement_history) > 0
    /\ approved_requests(procurement_history) < total_requests(procurement_history)
    /\ success_rate(procurement_history) = TrueDiv(100 * Len(procurement_history), Len(procurement_history))

====
